---- MODULE Spec2Model ----
(***************************************************************************)
(* Model of the TaxCalculator component (src/src/App.tsx): the bracket     *)
(* allocation of calculateTaxes and the submit flow of handleSubmit.       *)
(*                                                                         *)
(* Numbers.  Incomes and bracket bounds are integers (dollars).  A rate is *)
(* carried in percent (0.15 is 15), so taxPaid and totalTax are carried in *)
(* hundredths of a dollar (7500 dollars is 750000).  effectiveRate is an   *)
(* exact fraction [num, den] in lowest terms.  The arithmetic is exact:    *)
(* the rounding of JavaScript doubles is outside this model.               *)
(***************************************************************************)
EXTENDS Integers, Sequences, FiniteSets, TLC

VARIABLES
    salary,            \* useState<string>('')  : <<>> is '', <<n>> the text of n
    taxYear,           \* useState<string>('2022')
    loading,           \* useState(false)
    calculations,      \* useState<TaxCalculation[]>([])
    totalTax,          \* useState<number>(0), in hundredths
    effectiveRate,     \* useState<number>(0), a fraction
    validationErrors,  \* useState<ValidationErrors>({})
    inflight,          \* handleSubmit runs suspended at `await fetchTaxBrackets`
    toastCalls,        \* the toast() calls made by the last handler step
    lastEvent,         \* the last handler step that ran (history)
    superseded,        \* per suspended run: a later handleSubmit has run (history)
    mounted,           \* the component is rendered
    argIncome,         \* first argument of the last calculateTaxes call
    argBrackets,       \* the array passed to calculateTaxes, as it is after the call
    returned,          \* value returned by the last calculateTaxes call
    nCalls             \* calls made by the direct caller of calculateTaxes

vars == <<salary, taxYear, loading, calculations, totalTax, effectiveRate,
          validationErrors, inflight, toastCalls, lastEvent, superseded, mounted,
          argIncome, argBrackets, returned, nCalls>>

----------------------------------------------------------------------------
\* Bounds of the model.

MaxBound == 2
MaxBrackets == 2
MaxIncome == 3
MaxCalls == 2
MaxInFlight == 2

\* Program constants.

MaxSalary == 10000000
MinTaxYear == 2019
MaxTaxYear == 2022

TAXABLE_YEARS == {2019, 2020, 2021, 2022}

----------------------------------------------------------------------------
\* TaxBracket: max is optional, <<>> when absent and <<m>> when present.

HasMax(bracket) == bracket.max # <<>>

Rates == {10, 25}

OptionalMax == {<<>>} \cup {<<m>> : m \in 0..MaxBound}

Brackets == [min : 0..MaxBound, max : OptionalMax, rate : Rates]

BracketLists == UNION {[1..n -> Brackets] : n \in 0..MaxBrackets}

Incomes == 0..MaxIncome

\* The bracket set of the component's test (mockTaxBrackets).
mockTaxBrackets ==
    << [min |-> 0, max |-> <<50000>>, rate |-> 15],
       [min |-> 50000, max |-> <<100000>>, rate |-> 25],
       [min |-> 100000, max |-> <<>>, rate |-> 35] >>

----------------------------------------------------------------------------
\* Arithmetic helpers.

MathMax(a, b) == IF a >= b THEN a ELSE b

MathMin(a, b) == IF a <= b THEN a ELSE b

RECURSIVE GCD(_, _)
GCD(a, b) == IF b = 0 THEN a ELSE GCD(b, a % b)

\* n / d as a JavaScript number: 0/0 is NaN ([0,0]), n/0 is Infinity ([1,0]).
Frac(n, d) ==
    IF d = 0
    THEN [num |-> IF n = 0 THEN 0 ELSE 1, den |-> 0]
    ELSE LET g == GCD(n, d) IN [num |-> n \div g, den |-> d \div g]

\* f * k for a fraction f in lowest terms; NaN and Infinity stay what they are.
Times(f, k) ==
    IF f.den = 0 THEN f
    ELSE LET g == GCD(k, f.den) IN [num |-> f.num * (k \div g), den |-> f.den \div g]

----------------------------------------------------------------------------
\* calculateTaxes.

\* Array.prototype.sort with (a, b) => a.min - b.min is stable: an element is
\* placed after every element whose min is not greater than its own.
RECURSIVE InsertByMin(_, _)
InsertByMin(b, s) ==
    IF s = <<>> THEN <<b>>
    ELSE IF b.min < Head(s).min THEN <<b>> \o s
    ELSE <<Head(s)>> \o InsertByMin(b, Tail(s))

RECURSIVE SortPrefix(_, _)
SortPrefix(s, n) ==
    IF n = 0 THEN <<>> ELSE InsertByMin(s[n], SortPrefix(s, n - 1))

Unsorted(brackets) == brackets

sortedBrackets(brackets) == SortPrefix(brackets, Len(brackets))

\* The input array after the call: the sort works on the copy [...brackets].
SortedInPlace(brackets) == sortedBrackets(brackets)

InputAfterCall(brackets) == brackets

UncappedInBand(income, bracket) == MathMax(0, income - bracket.min)

MaxNotWidth(income, bracket) ==
    MathMax(0, IF HasMax(bracket)
               THEN MathMin(income - bracket.min, bracket.max[1])
               ELSE income - bracket.min)

OnlyWithinBand(income, bracket) ==
    IF HasMax(bracket) /\ income >= bracket.max[1]
    THEN 0
    ELSE MathMax(0, income - bracket.min)

\* Math.max(0, Math.min(income - min, max - min)) with max = bracket.max ?? Infinity
taxableInBand(income, bracket) ==
    LET min == bracket.min
    IN  MathMax(0, IF HasMax(bracket)
                   THEN MathMin(income - min, bracket.max[1] - min)
                   ELSE income - min)

EmitsZeroToo(taxable) == taxable >= 0

\* if (taxableInBand > 0)
Emits(taxable) == taxable > 0

\* The body of sortedBrackets.forEach, over the sorted list.
RECURSIVE ForEachBracket(_, _)
ForEachBracket(income, sorted) ==
    IF sorted = <<>> THEN <<>>
    ELSE LET bracket == Head(sorted)
             taxable == taxableInBand(income, bracket)
             rest    == ForEachBracket(income, Tail(sorted))
         IN  IF Emits(taxable)
             THEN << [bracket       |-> bracket,
                      taxableAmount |-> taxable,
                      taxPaid       |-> taxable * bracket.rate] >> \o rest
             ELSE rest

\* The value calculateTaxes returns.
calculateTaxes(income, brackets) ==
    ForEachBracket(income, sortedBrackets(brackets))

RECURSIVE SumTaxPaid(_)
SumTaxPaid(calcs) ==
    IF calcs = <<>> THEN 0 ELSE Head(calcs).taxPaid + SumTaxPaid(Tail(calcs))

RECURSIVE SumTaxable(_)
SumTaxable(calcs) ==
    IF calcs = <<>> THEN 0 ELSE Head(calcs).taxableAmount + SumTaxable(Tail(calcs))

\* totalTaxPaid when forEach ends.
totalTaxPaid(income, brackets) == SumTaxPaid(calculateTaxes(income, brackets))

RatioNotPercent(total, income) == Frac(total, income * 100)

\* (totalTaxPaid / income) * 100, with total in hundredths and income in dollars.
effectiveRateValue(total, income) == Times(Frac(total, income * 100), 100)

\* What a call of calculateTaxes does to the state: setTotalTax, setEffectiveRate,
\* and the return value.
CalculateTaxesSets(income, brackets) ==
    /\ totalTax' = totalTaxPaid(income, brackets)
    /\ effectiveRate' = effectiveRateValue(totalTaxPaid(income, brackets), income)

CalculateTaxesReturns(income, brackets) ==
    /\ argIncome' = income
    /\ argBrackets' = InputAfterCall(brackets)
    /\ returned' = calculateTaxes(income, brackets)

CalculateTaxesCall(income, brackets) ==
    /\ CalculateTaxesSets(income, brackets)
    /\ CalculateTaxesReturns(income, brackets)

----------------------------------------------------------------------------
\* The component.

Undefined == "undefined"

\* Number(value) of the text of an <input type="number">: Number('') is 0.
ToNumber(value) == IF value = <<>> THEN 0 ELSE value[1]

SalaryInputs == {<<>>, <<0 - 1000>>, <<75000>>, <<MaxSalary>>, <<2 * MaxSalary>>}

\* salarySchema.validate: the message of the failing test, or undefined.
salarySchema(n) ==
    IF ~(n > 0) THEN "Salary must be positive"
    ELSE IF n > MaxSalary THEN "Salary cannot exceed 10M"
    ELSE Undefined

\* taxYearSchema.validate
taxYearSchema(n) ==
    IF n < MinTaxYear THEN "Tax year must be 2019 or later"
    ELSE IF n > MaxTaxYear THEN "Tax year cannot exceed 2022"
    ELSE Undefined

ComponentInit ==
    /\ salary = <<>>
    /\ taxYear = <<MaxTaxYear>>
    /\ loading = FALSE
    /\ calculations = <<>>
    /\ totalTax = 0
    /\ effectiveRate = [num |-> 0, den |-> 1]
    /\ validationErrors = [salary |-> Undefined, taxYear |-> Undefined]
    /\ inflight = <<>>
    /\ toastCalls = <<>>
    /\ lastEvent = [op |-> "init", failure |-> <<>>]
    /\ superseded = <<>>
    /\ mounted = TRUE

componentVars == <<salary, taxYear, loading, calculations, validationErrors,
                   inflight, toastCalls, lastEvent, superseded, mounted>>

----------------------------------------------------------------------------
\* calculateTaxes called directly on chosen arguments.

CalcInputs ==
    (Incomes \X BracketLists) \cup ({75000, 150000} \X {mockTaxBrackets})

InitCalc ==
    /\ ComponentInit
    /\ \E in \in CalcInputs : argIncome = in[1] /\ argBrackets = in[2]
    /\ returned = <<>>
    /\ nCalls = 0

Call ==
    /\ nCalls < MaxCalls
    /\ nCalls' = nCalls + 1
    /\ CalculateTaxesCall(argIncome, argBrackets)
    /\ UNCHANGED componentVars

NextCalc == Call

SpecCalc == InitCalc /\ [][NextCalc]_vars

----------------------------------------------------------------------------
\* The component's handlers.

\* What the Bracket Provider may answer: data.tax_brackets.
ProviderData ==
    { mockTaxBrackets,
      << mockTaxBrackets[3], mockTaxBrackets[1], mockTaxBrackets[2] >>,
      << >> }

\* What api.get may reject with.
Failures ==
    { [isAxiosError |-> TRUE, responseMessage |-> <<"Tax year not found">>,
       message |-> "Request failed with status code 404",
       asString |-> "AxiosError: Request failed with status code 404"],
      [isAxiosError |-> TRUE, responseMessage |-> <<>>,
       message |-> "Network Error",
       asString |-> "AxiosError: Network Error"],
      [isAxiosError |-> FALSE, responseMessage |-> <<>>,
       message |-> "API Error",
       asString |-> "Error: API Error"] }

\* The message of the error fetchTaxBrackets throws from its catch block:
\* new Error(error.response?.data?.message || error) for an axios error, the
\* error itself otherwise.
ThrownMessage(error) ==
    IF error.isAxiosError
    THEN IF error.responseMessage # <<>>
         THEN error.responseMessage[1]
         ELSE error.asString
    ELSE error.message

Event(op) == [op |-> op, failure |-> <<>>]

handleSalaryChange(value) ==
    /\ mounted
    /\ salary' = value
    /\ validationErrors' =
           [validationErrors EXCEPT !.salary = salarySchema(ToNumber(value))]
    /\ toastCalls' = <<>>
    /\ lastEvent' = Event("salaryChange")
    /\ UNCHANGED <<taxYear, loading, calculations, totalTax, effectiveRate,
                   inflight, superseded, mounted,
                   argIncome, argBrackets, returned, nCalls>>

handleTaxYearChange(value) ==
    /\ mounted
    /\ taxYear' = value
    /\ validationErrors' =
           [validationErrors EXCEPT !.taxYear = taxYearSchema(ToNumber(value))]
    /\ toastCalls' = <<>>
    /\ lastEvent' = Event("taxYearChange")
    /\ UNCHANGED <<salary, loading, calculations, totalTax, effectiveRate,
                   inflight, superseded, mounted,
                   argIncome, argBrackets, returned, nCalls>>

KeepsPriorRows(rows) == rows

\* setCalculations([]) at the start of handleSubmit.
ClearedCalculations(rows) == <<>>

isSalaryValid == salarySchema(ToNumber(salary)) = Undefined

isTaxYearValid == taxYearSchema(ToNumber(taxYear)) = Undefined

FetchesAnyway == TRUE

\* The gate of handleSubmit: it returns unless both fields are valid.
PassesValidation == isSalaryValid /\ isTaxYearValid

\* Every run still suspended when a new handleSubmit starts is an earlier submit.
AllSuperseded(flags) == [k \in 1..Len(flags) |-> TRUE]

\* handleSubmit up to its first suspension: it clears the rows, validates both
\* fields and either returns or starts the fetch and waits for it.
handleSubmit ==
    /\ mounted
    /\ calculations' = ClearedCalculations(calculations)
    /\ validationErrors' = [salary  |-> salarySchema(ToNumber(salary)),
                            taxYear |-> taxYearSchema(ToNumber(taxYear))]
    /\ toastCalls' = <<>>
    /\ IF ~PassesValidation
       THEN /\ lastEvent' = Event("submitAborted")
            /\ superseded' = AllSuperseded(superseded)
            /\ UNCHANGED <<loading, inflight>>
       ELSE /\ Len(inflight) < MaxInFlight
            /\ loading' = TRUE
            /\ inflight' = Append(inflight, [salary |-> salary, taxYear |-> taxYear])
            /\ superseded' = Append(AllSuperseded(superseded), FALSE)
            /\ lastEvent' = Event("submitFetching")
    /\ UNCHANGED <<salary, taxYear, totalTax, effectiveRate, mounted,
                   argIncome, argBrackets, returned, nCalls>>

Remove(s, i) == SubSeq(s, 1, i - 1) \o SubSeq(s, i + 1, Len(s))

\* The fetch of the i-th suspended handleSubmit resolves with `data`: the run
\* resumes, calls calculateTaxes, sets the rows and ends in the finally block.
\* The run resumes whether or not a later submit has run and whether or not the
\* component is still rendered: nothing in handleSubmit or fetchTaxBrackets
\* cancels it.  The state setters of a component that is gone set nothing.
FetchResolved(i, data) ==
    /\ CalculateTaxesReturns(ToNumber(inflight[i].salary), data)
    /\ IF mounted
       THEN /\ CalculateTaxesSets(ToNumber(inflight[i].salary), data)
            /\ calculations' = calculateTaxes(ToNumber(inflight[i].salary), data)
            /\ loading' = FALSE
       ELSE UNCHANGED <<totalTax, effectiveRate, calculations, loading>>
    /\ inflight' = Remove(inflight, i)
    /\ superseded' = Remove(superseded, i)
    /\ toastCalls' = <<>>
    /\ lastEvent' = Event("fetchResolved")
    /\ UNCHANGED <<salary, taxYear, validationErrors, mounted, nCalls>>

ToastsTwice(error) == << ThrownMessage(error), ThrownMessage(error) >>

\* The toast() calls of the catch block of handleSubmit.
CatchToasts(error) == << ThrownMessage(error) >>

\* The fetch of the i-th suspended handleSubmit rejects: the catch block raises
\* the toast and the finally block ends the run.
FetchRejected(i, error) ==
    /\ toastCalls' = CatchToasts(error)
    /\ loading' = (IF mounted THEN FALSE ELSE loading)
    /\ inflight' = Remove(inflight, i)
    /\ superseded' = Remove(superseded, i)
    /\ lastEvent' = [op |-> "fetchRejected", failure |-> <<error>>]
    /\ UNCHANGED <<salary, taxYear, calculations, totalTax, effectiveRate, mounted,
                   validationErrors, argIncome, argBrackets, returned, nCalls>>

\* React removes the component: its handlers can no longer run, the suspended
\* runs of handleSubmit stay suspended.
Unmount ==
    /\ mounted
    /\ mounted' = FALSE
    /\ toastCalls' = <<>>
    /\ lastEvent' = Event("unmount")
    /\ UNCHANGED <<salary, taxYear, loading, calculations, totalTax, effectiveRate,
                   validationErrors, inflight, superseded,
                   argIncome, argBrackets, returned, nCalls>>

\* The options of the tax-year select that are chosen: the first and the last.
YearInputs == {year \in TAXABLE_YEARS : year = MinTaxYear \/ year = MaxTaxYear}

Init ==
    /\ ComponentInit
    /\ argIncome = 0
    /\ argBrackets = <<>>
    /\ returned = <<>>
    /\ nCalls = 0

Next ==
    \/ \E value \in SalaryInputs : handleSalaryChange(value)
    \/ \E year \in YearInputs : handleTaxYearChange(<<year>>)
    \/ handleSubmit
    \/ \E i \in 1..Len(inflight) : \E data \in ProviderData : FetchResolved(i, data)
    \/ \E i \in 1..Len(inflight) : \E error \in Failures : FetchRejected(i, error)
    \/ Unmount

Spec == Init /\ [][Next]_vars

----------------------------------------------------------------------------
\* Properties of calculateTaxes, stated on the last call (SpecCalc).

Called == nCalls > 0

PermsOf(s) ==
    { [i \in 1..Len(s) |-> s[f[i]]] : f \in Permutations(1..Len(s)) }

\* s, read in the order given, is a run of bands each ending where the next
\* begins, each finite band wider than zero, only the last one open-ended.
IsContiguous(s) ==
    /\ Len(s) >= 1
    /\ \A i \in 1..Len(s) : s[i].min >= 0
    /\ \A i \in 1..Len(s) : HasMax(s[i]) => s[i].max[1] > s[i].min
    /\ \A i \in 1..(Len(s) - 1) : HasMax(s[i]) /\ s[i].max[1] = s[i + 1].min

ValidBracketSet(brackets) == \E p \in PermsOf(brackets) : IsContiguous(p)

AllFinite(brackets) == \A i \in 1..Len(brackets) : HasMax(brackets[i])

HighestMax(brackets) ==
    CHOOSE m \in {brackets[i].max[1] : i \in 1..Len(brackets)} :
        \A i \in 1..Len(brackets) : brackets[i].max[1] <= m

LowestMin(brackets) ==
    CHOOSE m \in {brackets[i].min : i \in 1..Len(brackets)} :
        \A i \in 1..Len(brackets) : m <= brackets[i].min

ConservedAmount(income, brackets) ==
    IF AllFinite(brackets)
    THEN MathMin(income, HighestMax(brackets))
    ELSE income

\* C1, as stated: for every income >= 0 and every valid contiguous bracket set
\* the taxable amounts of the returned allocations sum to min(income, highest
\* max) when every bracket has a max, and to income otherwise.
C1_ConservationAsStated ==
    (Called /\ argIncome >= 0 /\ ValidBracketSet(argBrackets))
        => SumTaxable(returned) = ConservedAmount(argIncome, argBrackets)

\* C1, amended: the same, for the valid contiguous bracket sets whose lowest
\* min is 0.
C1_Conservation ==
    (Called /\ argIncome >= 0 /\ ValidBracketSet(argBrackets)
            /\ LowestMin(argBrackets) = 0)
        => SumTaxable(returned) = ConservedAmount(argIncome, argBrackets)

\* A call on two contiguous finite bands from 0 with the income above the top.
C1_Witness ==
    /\ Called
    /\ Len(argBrackets) = 2
    /\ ValidBracketSet(argBrackets)
    /\ LowestMin(argBrackets) = 0
    /\ AllFinite(argBrackets)
    /\ argIncome > HighestMax(argBrackets)
    /\ Len(returned) = 2

IsBoundaryScenario == Called /\ argIncome = 75000 /\ argBrackets = mockTaxBrackets

BoundaryAllocations ==
    << [bracket |-> mockTaxBrackets[1], taxableAmount |-> 50000, taxPaid |-> 750000],
       [bracket |-> mockTaxBrackets[2], taxableAmount |-> 25000, taxPaid |-> 625000] >>

AllocationsOf(bracket) ==
    {j \in 1..Len(returned) : returned[j].bracket = bracket}

\* C3: a bracket with max > min and income >= max is emitted with taxableAmount
\* max - min and taxPaid (max - min) * rate; a bracket without max and income >
\* min is emitted with taxableAmount income - min.  Income 150,000 on the three
\* test brackets gives taxPaid 7500, 12500, 17500 and totalTax 37500.
C3_FilledBands ==
    Called =>
        /\ \A i \in 1..Len(argBrackets) :
              LET b == argBrackets[i] IN
              /\ (HasMax(b) /\ b.max[1] > b.min /\ argIncome >= b.max[1])
                    => /\ AllocationsOf(b) # {}
                       /\ \A j \in AllocationsOf(b) :
                             /\ returned[j].taxableAmount = b.max[1] - b.min
                             /\ returned[j].taxPaid = (b.max[1] - b.min) * b.rate
              /\ (~HasMax(b) /\ argIncome > b.min)
                    => /\ AllocationsOf(b) # {}
                       /\ \A j \in AllocationsOf(b) :
                             returned[j].taxableAmount = argIncome - b.min
        /\ (argIncome = 150000 /\ argBrackets = mockTaxBrackets)
              => /\ Len(returned) = 3
                 /\ returned[1].taxPaid = 750000
                 /\ returned[2].taxPaid = 1250000
                 /\ returned[3].taxPaid = 1750000
                 /\ totalTax = 3750000

C3_Witness ==
    /\ Called
    /\ argIncome = 150000
    /\ argBrackets = mockTaxBrackets
    /\ Len(returned) = 3
    /\ returned[3].taxableAmount = 50000

SameResultFor(brackets) ==
    /\ calculateTaxes(argIncome, brackets) = returned
    /\ totalTaxPaid(argIncome, brackets) = totalTax
    /\ effectiveRateValue(totalTaxPaid(argIncome, brackets), argIncome) = effectiveRate

AscendingByMin(calcs) ==
    \A j \in 1..(Len(calcs) - 1) : calcs[j].bracket.min <= calcs[j + 1].bracket.min

DistinctMins(brackets) ==
    \A i, j \in 1..Len(brackets) : i # j => brackets[i].min # brackets[j].min

\* C4, as stated: for every income and every bracket list, every permutation of
\* the list gives the same result: the same allocations in ascending order of
\* min, the same totalTax and the same effectiveRate.
C4_OrderIndependenceAsStated ==
    Called =>
        /\ AscendingByMin(returned)
        /\ \A p \in PermsOf(argBrackets) : SameResultFor(p)

\* C4, amended: the same, for the bracket lists in which no two brackets have
\* the same min.
C4_OrderIndependence ==
    (Called /\ DistinctMins(argBrackets)) =>
        /\ AscendingByMin(returned)
        /\ \A p \in PermsOf(argBrackets) : SameResultFor(p)

\* A call on a list given in descending order of min, both brackets emitted.
C4_Witness ==
    /\ Called
    /\ Len(argBrackets) = 2
    /\ argBrackets[1].min > argBrackets[2].min
    /\ Len(returned) = 2

OtherIncomes == Incomes \cup {75000, 150000}

\* C5: for a fixed bracket set, a <= b implies totalTax for a <= totalTax for b.
C5_Monotonicity ==
    Called =>
        \A a \in OtherIncomes :
            /\ a <= argIncome => totalTaxPaid(a, argBrackets) <= totalTax
            /\ a >= argIncome => totalTaxPaid(a, argBrackets) >= totalTax

\* A call whose income fills a finite band, compared with a smaller income
\* that pays less.
C5_Witness ==
    /\ Called
    /\ \E i \in 1..Len(argBrackets) :
          /\ HasMax(argBrackets[i])
          /\ argBrackets[i].max[1] > argBrackets[i].min
          /\ argIncome > argBrackets[i].max[1]
    /\ \E a \in OtherIncomes : a < argIncome /\ totalTaxPaid(a, argBrackets) < totalTax

ContributesNothing(bracket) ==
    \/ bracket.min > argIncome
    \/ HasMax(bracket) /\ bracket.max[1] <= bracket.min

Contributing(bracket) == ~ContributesNothing(bracket)

\* C6: every returned allocation has taxableAmount > 0; a bracket whose min is
\* above the income, and a bracket whose max is not above its min, is not among
\* the allocations and adds nothing to totalTax.
C6_ZeroOmission ==
    Called =>
        /\ \A j \in 1..Len(returned) : returned[j].taxableAmount > 0
        /\ \A i \in 1..Len(argBrackets) :
              ContributesNothing(argBrackets[i]) => AllocationsOf(argBrackets[i]) = {}
        /\ totalTax = totalTaxPaid(argIncome, SelectSeq(argBrackets, Contributing))

\* A call with a bracket above the income beside a bracket that is emitted.
C6_Witness ==
    /\ Called
    /\ \E i \in 1..Len(argBrackets) : argBrackets[i].min > argIncome
    /\ Len(returned) = 1
    /\ totalTax > 0

----------------------------------------------------------------------------
\* Properties of handleSubmit (Spec).

ValidSalary(n) == n > 0 /\ n <= MaxSalary

ValidTaxYear(n) == n >= MinTaxYear /\ n <= MaxTaxYear

SalaryMessages == {"Salary must be positive", "Salary cannot exceed 10M"}

TaxYearMessages == {"Tax year must be 2019 or later", "Tax year cannot exceed 2022"}

SubmitOps == {"submitAborted", "submitFetching"}

\* C7: a run of handleSubmit starts the fetch, and calculateTaxes is later
\* called for it, only if the salary is in (0, 10,000,000] and the tax year in
\* 2019..2022; otherwise the run ends with a message for each invalid field in
\* validationErrors, without fetch, calculation or error notification.
C7_ValidationGate ==
    [][ /\ \A i \in 1..Len(inflight') :
              /\ ValidSalary(ToNumber(inflight'[i].salary))
              /\ ValidTaxYear(ToNumber(inflight'[i].taxYear))
        /\ (lastEvent'.op = "fetchResolved") => ValidSalary(argIncome')
        /\ (lastEvent'.op = "submitFetching")
              => /\ ValidSalary(ToNumber(salary)) /\ ValidTaxYear(ToNumber(taxYear))
                 /\ inflight' = Append(inflight, [salary |-> salary, taxYear |-> taxYear])
        /\ (lastEvent'.op = "submitAborted")
              => /\ ~(ValidSalary(ToNumber(salary)) /\ ValidTaxYear(ToNumber(taxYear)))
                 /\ ~ValidSalary(ToNumber(salary))
                       => validationErrors'.salary \in SalaryMessages
                 /\ ~ValidTaxYear(ToNumber(taxYear))
                       => validationErrors'.taxYear \in TaxYearMessages
                 /\ inflight' = inflight
                 /\ toastCalls' = <<>>
                 /\ UNCHANGED <<argIncome, argBrackets, returned, totalTax,
                                effectiveRate, loading>> ]_vars

\* A submit of a salary above the maximum that ended at the validation.
C7_Witness ==
    /\ lastEvent.op = "submitAborted"
    /\ ToNumber(salary) > MaxSalary
    /\ validationErrors.salary = "Salary cannot exceed 10M"
    /\ inflight = <<>>
    /\ ~loading

\* C8: when the fetch of a submit fails, calculateTaxes is not called for that
\* submit, exactly one error notification is raised, carrying the message of
\* the failure, and allocations, totalTax and effectiveRate stay as they were.
C8_ProviderFailure ==
    [][ (lastEvent'.op = "fetchRejected") =>
            LET error == lastEvent'.failure[1] IN
            /\ Len(toastCalls') = 1
            /\ toastCalls'[1] =
                   IF error.responseMessage # <<>> THEN error.responseMessage[1]
                   ELSE IF error.isAxiosError THEN error.asString
                   ELSE error.message
            /\ Len(inflight') = Len(inflight) - 1
            /\ UNCHANGED <<calculations, totalTax, effectiveRate,
                           argIncome, argBrackets, returned>> ]_vars

\* A failed fetch after an earlier submit had produced a result.
C8_Witness ==
    /\ lastEvent.op = "fetchRejected"
    /\ toastCalls = <<"API Error">>
    /\ returned # <<>>
    /\ totalTax > 0
    /\ calculations = <<>>

\* C9, as stated: when the latest submit was aborted by the validation or failed
\* at the fetch, nothing of a prior result remains: allocations are empty and
\* totalTax and effectiveRate are back at 0.
C9_PriorResultClearedAsStated ==
    (lastEvent.op = "submitAborted" \/ (lastEvent.op = "fetchRejected" /\ inflight = <<>>))
        => /\ calculations = <<>>
           /\ totalTax = 0
           /\ effectiveRate = [num |-> 0, den |-> 1]

\* C9, amended: every handleSubmit clears the allocations at its start, before
\* the validation and the fetch, and leaves totalTax and effectiveRate at the
\* values of the last calculation; a failed fetch writes none of the three.
C9_PriorResultCleared ==
    [][ /\ (lastEvent'.op \in SubmitOps)
              => /\ calculations' = <<>>
                 /\ totalTax' = totalTax
                 /\ effectiveRate' = effectiveRate
        /\ (lastEvent'.op = "fetchRejected")
              => /\ calculations' = calculations
                 /\ totalTax' = totalTax
                 /\ effectiveRate' = effectiveRate ]_vars

\* A submit aborted by the validation after an earlier submit had shown rows.
C9_Witness ==
    /\ lastEvent.op = "submitAborted"
    /\ calculations = <<>>
    /\ returned # <<>>
    /\ totalTax > 0

\* The step resumes a suspended run of handleSubmit whose fetch was overtaken:
\* a later handleSubmit has run since, or the component is no longer rendered.
ResumesStaleRun ==
    \E i \in 1..Len(inflight) :
        /\ superseded[i] \/ ~mounted
        /\ inflight' = Remove(inflight, i)
        /\ superseded' = Remove(superseded, i)

\* C11: when the response of a fetch arrives after the component unmounted or
\* after a later submit, calculateTaxes is not called with it and allocations,
\* totalTax and effectiveRate are not written from it, so that what is shown
\* always comes from the most recent submit.
C11_StaleResponseDiscarded ==
    [][ (lastEvent'.op = "fetchResolved" /\ ResumesStaleRun)
            => /\ UNCHANGED <<argIncome, argBrackets, returned>>
               /\ UNCHANGED <<calculations, totalTax, effectiveRate>> ]_vars

----------------------------------------------------------------------------
\* The effective rate of the last call (SpecCalc).

\* The largest rate, in percent, among the brackets of the returned allocations.
TopRateReached ==
    CHOOSE r \in {returned[j].bracket.rate : j \in 1..Len(returned)} :
        \A j \in 1..Len(returned) : returned[j].bracket.rate <= r

RatesInUnitInterval(brackets) ==
    \A i \in 1..Len(brackets) : brackets[i].rate >= 0 /\ brackets[i].rate <= 100

HasEffectiveRateCase ==
    /\ Called
    /\ argIncome > 0
    /\ ValidBracketSet(argBrackets)
    /\ RatesInUnitInterval(argBrackets)

====
